---- MODULE Spec2Model ----
(***************************************************************************)
(* Model of setup_biblioteca.py: the sequential setup procedure of the     *)
(* "biblioteca" MongoDB database (connect, optional drop, collections,     *)
(* indexes, seed data, validation query, JSON export), run one process     *)
(* after another against the same store and the same data/ directory.      *)
(*                                                                         *)
(* The store is modelled by what the driver calls of the script rely on:   *)
(* collections with optional validators, indexes (unique or not), ordered  *)
(* insert_many, count, $lookup/$unwind/$project, find, drop_database.      *)
(* Every store or file call may also raise an injected exception (a        *)
(* network or disk fault); faults counts them.                             *)
(***************************************************************************)
EXTENDS Integers, Sequences, FiniteSets, TLC

\* Number of processes (runs of main) started one after the other.
MaxRuns == 3
\* Number of injected faults (exceptions other than the store's own
\* duplicate-key, validation and already-exists errors) over all runs.
MaxFaults == 1
\* Number of documents another writer left in a collection (SpecExport).
MaxPre == 2

VARIABLES
    pc,          \* position of the running process; "idle" when none runs
    reset,       \* args.reset of the running process
    runLog,      \* one record per finished process: its reset flag and exit status
    colls,       \* names of the collections that exist in db biblioteca
    validated,   \* the collections that carry their $jsonSchema validator
    indexes,     \* the secondary indexes that exist: [coll, key, unique]
    store,       \* collection name -> sequence of documents, in insertion order
    nextId,      \* number of ObjectIds generated so far
    now,         \* datetime.now() of the running process, as a day ordinal
    ids,         \* autori_ids, libri_ids, utenti_ids of load_sample_data
    libri_con_autori, \* result of the aggregation of validate_setup
    dataDir,     \* whether directory data/ exists
    files,       \* collection name -> content of data/<name>_sample.json
    calls,       \* the store and file calls of the running (or last) process
    faults       \* injected faults so far

vars == <<pc, reset, runLog, colls, validated, indexes, store, nextId, now,
          ids, libri_con_autori, dataDir, files, calls, faults>>

(***************************************************************************)
(* BSON / Python values.  A value is [t, n, s]: its type, an integer       *)
(* payload and a string payload.  The strings produced by a conversion     *)
(* keep what they were produced from: s = "hex" is the 24-digit hex form   *)
(* of ObjectId n, s = "isoformat" is 'YYYY-MM-DDTHH:MM:SS' of day n and    *)
(* s = "str" is 'YYYY-MM-DD HH:MM:SS' of day n.                            *)
(***************************************************************************)
ObjectId(n) == [t |-> "objectId", n |-> n, s |-> ""]
Date(d) == [t |-> "date", n |-> d, s |-> ""]
Str(s) == [t |-> "string", n |-> 0, s |-> s]
Int32(n) == [t |-> "int", n |-> n, s |-> ""]
Bool(b) == [t |-> "bool", n |-> IF b THEN 1 ELSE 0, s |-> ""]
Null == [t |-> "null", n |-> 0, s |-> ""]

\* str(ObjectId): the canonical hex string.
OidStr(v) == [t |-> "string", n |-> v.n, s |-> "hex"]
\* datetime.isoformat(): 'T' between date and time.
IsoFormat(v) == [t |-> "string", n |-> v.n, s |-> "isoformat"]
\* str(datetime): a space between date and time.
DateStr(v) == [t |-> "string", n |-> v.n, s |-> "str"]

(***************************************************************************)
(* A document is a function from paths to values: <<"isbn">> is a top      *)
(* level field, <<"a", "b">> is field b of the embedded document a.        *)
(***************************************************************************)
Top(r) == [p \in {<<k>> : k \in DOMAIN r} |-> r[p[1]]]
Has(doc, f) == <<f>> \in DOMAIN doc
Get(doc, f) == doc[<<f>>]
WithId(doc, n) == (<<"_id">> :> ObjectId(n)) @@ doc

CollNames == <<"autori", "libri", "utenti", "prestiti">>
Collections == {CollNames[i] : i \in DOMAIN CollNames}

(***************************************************************************)
(* create_collections: the validators.                                     *)
(***************************************************************************)
Required ==
    [autori |-> {"nome", "cognome", "data_nascita"},
     libri |-> {"titolo", "autore_id", "isbn", "anno_pubblicazione", "copie_disponibili"},
     utenti |-> {"nome", "cognome", "email", "codice_fiscale", "data_registrazione"},
     prestiti |-> {"libro_id", "utente_id", "data_prestito", "data_scadenza",
                   "utente_nome", "utente_email"}]

\* bsonType of each declared property ("stato" is an enum of strings).
Properties ==
    [autori |-> [nome |-> {"string"}, cognome |-> {"string"}, data_nascita |-> {"date"},
                 data_morte |-> {"date", "null"}, nazionalita |-> {"string"},
                 biografia |-> {"string"}],
     libri |-> [titolo |-> {"string"}, autore_id |-> {"objectId"}, isbn |-> {"string"},
                anno_pubblicazione |-> {"int"}, genere |-> {"string"},
                editore |-> {"string"}, pagine |-> {"int"}, copie_totali |-> {"int"},
                copie_disponibili |-> {"int"}, descrizione |-> {"string"}],
     utenti |-> [nome |-> {"string"}, cognome |-> {"string"}, email |-> {"string"},
                 codice_fiscale |-> {"string"}, telefono |-> {"string"},
                 data_registrazione |-> {"date"}, attivo |-> {"bool"}],
     prestiti |-> [libro_id |-> {"objectId"}, utente_id |-> {"objectId"},
                   data_prestito |-> {"date"}, data_scadenza |-> {"date"},
                   data_restituzione |-> {"date", "null"}, utente_nome |-> {"string"},
                   utente_email |-> {"string"}, note |-> {"string"},
                   stato |-> {"string"}]]

\* A plausible slip: the status tags in another language than the seed's.
StatoEnumEnglish == {"active", "returned", "overdue"}

StatoEnum == {"attivo", "restituito", "scaduto"}

\* The $jsonSchema check of collection c on doc: required fields and the
\* bsonType of the declared ones.  (The string patterns, lengths and numeric
\* ranges hold of every seed value and are not represented in the values.)
SchemaOk(c, doc) ==
    /\ \A f \in Required[c] : Has(doc, f)
    /\ \A f \in DOMAIN Properties[c] :
          Has(doc, f) => Get(doc, f).t \in Properties[c][f]
    /\ (c = "prestiti" /\ Has(doc, "stato")) => Get(doc, "stato").s \in StatoEnum

(***************************************************************************)
(* create_indexes: the fourteen create_index calls, in order.              *)
(***************************************************************************)
Idx(c, k, u) == [coll |-> c, key |-> k, unique |-> u]

\* A plausible slip: unique=True left out of the isbn index.
IndexSpecsIsbnNotUnique ==
    << Idx("autori", <<"nome", "cognome">>, FALSE),
       Idx("autori", <<"cognome">>, FALSE),
       Idx("libri", <<"autore_id">>, FALSE),
       Idx("libri", <<"isbn">>, FALSE),
       Idx("libri", <<"titolo">>, FALSE),
       Idx("libri", <<"genere">>, FALSE),
       Idx("utenti", <<"email">>, TRUE),
       Idx("utenti", <<"codice_fiscale">>, TRUE),
       Idx("utenti", <<"cognome">>, FALSE),
       Idx("prestiti", <<"utente_id">>, FALSE),
       Idx("prestiti", <<"libro_id">>, FALSE),
       Idx("prestiti", <<"data_prestito">>, FALSE),
       Idx("prestiti", <<"data_scadenza">>, FALSE),
       Idx("prestiti", <<"stato">>, FALSE) >>

\* A plausible change: the (nome, cognome) index of autori made unique.
IndexSpecsAuthorsUnique ==
    << Idx("autori", <<"nome", "cognome">>, TRUE),
       Idx("autori", <<"cognome">>, FALSE),
       Idx("libri", <<"autore_id">>, FALSE),
       Idx("libri", <<"isbn">>, TRUE),
       Idx("libri", <<"titolo">>, FALSE),
       Idx("libri", <<"genere">>, FALSE),
       Idx("utenti", <<"email">>, TRUE),
       Idx("utenti", <<"codice_fiscale">>, TRUE),
       Idx("utenti", <<"cognome">>, FALSE),
       Idx("prestiti", <<"utente_id">>, FALSE),
       Idx("prestiti", <<"libro_id">>, FALSE),
       Idx("prestiti", <<"data_prestito">>, FALSE),
       Idx("prestiti", <<"data_scadenza">>, FALSE),
       Idx("prestiti", <<"stato">>, FALSE) >>

IndexSpecs ==
    << Idx("autori", <<"nome", "cognome">>, FALSE),
       Idx("autori", <<"cognome">>, FALSE),
       Idx("libri", <<"autore_id">>, FALSE),
       Idx("libri", <<"isbn">>, TRUE),
       Idx("libri", <<"titolo">>, FALSE),
       Idx("libri", <<"genere">>, FALSE),
       Idx("utenti", <<"email">>, TRUE),
       Idx("utenti", <<"codice_fiscale">>, TRUE),
       Idx("utenti", <<"cognome">>, FALSE),
       Idx("prestiti", <<"utente_id">>, FALSE),
       Idx("prestiti", <<"libro_id">>, FALSE),
       Idx("prestiti", <<"data_prestito">>, FALSE),
       Idx("prestiti", <<"data_scadenza">>, FALSE),
       Idx("prestiti", <<"stato">>, FALSE) >>

(***************************************************************************)
(* The store's write path.                                                 *)
(***************************************************************************)
\* The key an index stores for doc: a missing field is indexed as null.
KeyOf(doc, key) == [i \in DOMAIN key |-> IF Has(doc, key[i]) THEN Get(doc, key[i]) ELSE Null]

\* Whether two documents of contents have the same key.
HasDuplicates(contents, key) ==
    \E i, j \in DOMAIN contents : i < j /\ KeyOf(contents[i], key) = KeyOf(contents[j], key)

\* E11000: doc collides with a document of contents on _id or on a unique index.
DuplicateKey(c, contents, doc) ==
    \/ \E i \in DOMAIN contents : Get(contents[i], "_id") = Get(doc, "_id")
    \/ \E ix \in indexes :
          /\ ix.coll = c
          /\ ix.unique
          /\ \E i \in DOMAIN contents : KeyOf(contents[i], ix.key) = KeyOf(doc, ix.key)

\* Whether the server writes doc into collection c holding contents.
Accepts(c, contents, doc) ==
    /\ c \in validated => SchemaOk(c, doc)
    /\ ~DuplicateKey(c, contents, doc)

\* insert_many is ordered: the server writes batch[i], batch[i+1], ... in
\* order up to batch[limit] and stops at the first document it rejects; what
\* it wrote before stays.  attempted counts the documents it was given.
RECURSIVE InsertFrom(_, _, _, _, _)
InsertFrom(c, contents, batch, i, limit) ==
    IF i > limit
    THEN [docs |-> contents, attempted |-> i - 1, error |-> FALSE]
    ELSE IF Accepts(c, contents, batch[i])
         THEN InsertFrom(c, Append(contents, batch[i]), batch, i + 1, limit)
         ELSE [docs |-> contents, attempted |-> i, error |-> TRUE]

\* The outcomes of n requests made in order: no fault, or an injected fault
\* after k <= m of them were served.
Outcomes(n, m) ==
    {[fault |-> FALSE, k |-> n]}
        \cup (IF faults < MaxFaults THEN {[fault |-> TRUE, k |-> j] : j \in 0..m} ELSE {})

\* The outcomes of a single call: TRUE, or FALSE for an injected fault.
OkChoices == IF faults < MaxFaults THEN BOOLEAN ELSE {TRUE}

\* create_index: building a unique index over duplicate keys fails; an
\* index that exists already is left as it is.
IndexBuildable(ix, st) == ~(ix.unique /\ HasDuplicates(st[ix.coll], ix.key))

\* The create_index calls i..limit of create_indexes in order, stopping at
\* the first one that raises.
RECURSIVE CreateFrom(_, _, _, _)
CreateFrom(made, st, i, limit) ==
    IF i > limit
    THEN [made |-> made, error |-> FALSE]
    ELSE IF IndexBuildable(IndexSpecs[i], st)
         THEN CreateFrom(made \cup {IndexSpecs[i]}, st, i + 1, limit)
         ELSE [made |-> made, error |-> TRUE]

(***************************************************************************)
(* load_sample_data: the seed batches.  Dates are day ordinals.            *)
(***************************************************************************)
AutoriData ==
    << Top([nome |-> Str("Alessandro"), cognome |-> Str("Manzoni"),
            data_nascita |-> Date(651659), data_morte |-> Date(683876),
            nazionalita |-> Str("Italiana"),
            biografia |-> Str("Scrittore e poeta italiano del romanticismo")]),
       Top([nome |-> Str("Italo"), cognome |-> Str("Calvino"),
            data_nascita |-> Date(702283), data_morte |-> Date(724903),
            nazionalita |-> Str("Italiana"),
            biografia |-> Str("Scrittore e giornalista italiano")]),
       Top([nome |-> Str("Umberto"), cognome |-> Str("Eco"),
            data_nascita |-> Date(705287), data_morte |-> Date(736013),
            nazionalita |-> Str("Italiana"),
            biografia |-> Str("Scrittore, filosofo e semiologo italiano")]) >>

LibriData(autori_ids) ==
    << Top([titolo |-> Str("I Promessi Sposi"), autore_id |-> ObjectId(autori_ids[1]),
            isbn |-> Str("978-88-17-12345-1"), anno_pubblicazione |-> Int32(1827),
            genere |-> Str("Romanzo storico"), editore |-> Str("Feltrinelli"),
            pagine |-> Int32(720), copie_totali |-> Int32(5),
            copie_disponibili |-> Int32(3),
            descrizione |-> Str("Capolavoro della letteratura italiana")]),
       Top([titolo |-> Str("Il Barone Rampante"), autore_id |-> ObjectId(autori_ids[2]),
            isbn |-> Str("978-88-06-12345-2"), anno_pubblicazione |-> Int32(1957),
            genere |-> Str("Narrativa"), editore |-> Str("Einaudi"),
            pagine |-> Int32(280), copie_totali |-> Int32(3),
            copie_disponibili |-> Int32(2),
            descrizione |-> Str("Secondo romanzo della trilogia I nostri antenati")]),
       Top([titolo |-> Str("Il Nome della Rosa"), autore_id |-> ObjectId(autori_ids[3]),
            isbn |-> Str("978-88-45-12345-3"), anno_pubblicazione |-> Int32(1980),
            genere |-> Str("Giallo storico"), editore |-> Str("Bompiani"),
            pagine |-> Int32(550), copie_totali |-> Int32(4),
            copie_disponibili |-> Int32(1),
            descrizione |-> Str("Romanzo giallo ambientato in un monastero medievale")]) >>

UtentiData ==
    << Top([nome |-> Str("Mario"), cognome |-> Str("Rossi"),
            email |-> Str("mario.rossi@email.com"),
            codice_fiscale |-> Str("RSSMRA80A01H501Z"),
            telefono |-> Str("+39 320 1234567"),
            data_registrazione |-> Date(738535), attivo |-> Bool(TRUE)]),
       Top([nome |-> Str("Giulia"), cognome |-> Str("Bianchi"),
            email |-> Str("giulia.bianchi@email.com"),
            codice_fiscale |-> Str("BNCGLI85B42F205X"),
            telefono |-> Str("+39 345 7890123"),
            data_registrazione |-> Date(738601), attivo |-> Bool(TRUE)]),
       Top([nome |-> Str("Luca"), cognome |-> Str("Verdi"),
            email |-> Str("luca.verdi@email.com"),
            codice_fiscale |-> Str("VRDLCU90C15G224Y"),
            telefono |-> Str("+39 366 4567890"),
            data_registrazione |-> Date(738650), attivo |-> Bool(TRUE)]) >>

\* A plausible slip: the two id lists taken for one another.
LoanRefsSwapped(libri_ids, utenti_ids) ==
    << [libro |-> utenti_ids[1], utente |-> libri_ids[1]],
       [libro |-> utenti_ids[3], utente |-> libri_ids[2]] >>

\* The captured ids each loan refers to: libri_ids[0] with utenti_ids[0],
\* libri_ids[2] with utenti_ids[1] (0-based in the source).
LoanRefs(libri_ids, utenti_ids) ==
    << [libro |-> libri_ids[1], utente |-> utenti_ids[1]],
       [libro |-> libri_ids[3], utente |-> utenti_ids[2]] >>

\* base_date = now - 30 days.
PrestitiData(libri_ids, utenti_ids, today) ==
    << Top([libro_id |-> ObjectId(LoanRefs(libri_ids, utenti_ids)[1].libro),
            utente_id |-> ObjectId(LoanRefs(libri_ids, utenti_ids)[1].utente),
            data_prestito |-> Date(today - 30), data_scadenza |-> Date(today - 30 + 30),
            data_restituzione |-> Date(today - 30 + 25),
            utente_nome |-> Str("Mario Rossi"),
            utente_email |-> Str("mario.rossi@email.com"),
            stato |-> Str("restituito"),
            note |-> Str("Restituito in perfette condizioni")]),
       Top([libro_id |-> ObjectId(LoanRefs(libri_ids, utenti_ids)[2].libro),
            utente_id |-> ObjectId(LoanRefs(libri_ids, utenti_ids)[2].utente),
            data_prestito |-> Date(today - 10), data_scadenza |-> Date(today + 20),
            data_restituzione |-> Null,
            utente_nome |-> Str("Giulia Bianchi"),
            utente_email |-> Str("giulia.bianchi@email.com"),
            stato |-> Str("attivo"),
            note |-> Str("Prestito in corso")]) >>

\* insert_many gives every document of the batch a fresh _id before it
\* sends the batch: ids first+1 .. first+Len(batch).
NewIds(first, n) == [i \in 1..n |-> first + i]
Stamp(batch, newIds) == [i \in DOMAIN batch |-> WithId(batch[i], newIds[i])]

(***************************************************************************)
(* validate_setup: the aggregation pipeline on libri.                      *)
(***************************************************************************)
\* A plausible slip: foreignField "autore_id" instead of "_id".
LookupWrongField(book, authors) ==
    SelectSeq(authors, LAMBDA a : KeyOf(a, <<"autore_id">>)[1] = KeyOf(book, <<"autore_id">>)[1])

\* $lookup from autori, localField autore_id, foreignField _id.
Lookup(book, authors) ==
    SelectSeq(authors, LAMBDA a : Get(a, "_id") = KeyOf(book, <<"autore_id">>)[1])

\* $project: _id, titolo, copie_disponibili and the $concat of the names.
Project(book, author) ==
    [_id |-> Get(book, "_id"),
     titolo |-> KeyOf(book, <<"titolo">>)[1],
     autore_nome |-> <<Get(author, "nome").s, " ", Get(author, "cognome").s>>,
     copie_disponibili |-> KeyOf(book, <<"copie_disponibili">>)[1]]

\* $unwind "$autore": one row per element of the looked-up array, none for
\* an empty array.
Unwind(book, matched) == [i \in DOMAIN matched |-> Project(book, matched[i])]

RECURSIVE Aggregate(_, _, _)
Aggregate(books, authors, i) ==
    IF i > Len(books)
    THEN <<>>
    ELSE Unwind(books[i], Lookup(books[i], authors)) \o Aggregate(books, authors, i + 1)

(***************************************************************************)
(* export_sample_json: the conversion of one document.                     *)
(***************************************************************************)
\* str(value) of Python.
PyStr(v) ==
    CASE v.t = "objectId" -> OidStr(v)
      [] v.t = "date" -> DateStr(v)
      [] v.t = "string" -> v
      [] OTHER -> [t |-> "string", n |-> v.n, s |-> v.t]

\* A plausible slip: the datetime branch of the loop left out.
TopConvertNoDates(p, v) ==
    LET v1 == IF p = <<"_id">> THEN PyStr(v) ELSE v
    IN  IF v1.t = "objectId" THEN OidStr(v1) ELSE v1

\* The loop over doc.items(): it sees the top level values only.
TopConvert(p, v) ==
    LET v1 == IF p = <<"_id">> THEN PyStr(v) ELSE v
    IN  IF v1.t = "objectId" THEN OidStr(v1)
        ELSE IF v1.t = "date" THEN IsoFormat(v1)
        ELSE v1

\* json.dump(..., default=str): str() of what JSON cannot encode, at any depth.
JsonDefault(v) == IF v.t \in {"objectId", "date"} THEN PyStr(v) ELSE v

ExportDoc(doc) ==
    [p \in DOMAIN doc |-> JsonDefault(IF Len(p) = 1 THEN TopConvert(p, doc[p]) ELSE doc[p])]

ExportDocs(docs) == [i \in DOMAIN docs |-> ExportDoc(docs[i])]

(***************************************************************************)
(* The process.                                                            *)
(***************************************************************************)
At(stage) == [at |-> stage, i |-> 0]
Call(op, c, ok, n) == [op |-> op, coll |-> c, ok |-> ok, n |-> n]
NoIds == [autori |-> <<>>, libri |-> <<>>, utenti |-> <<>>]
NoFile == [exists |-> FALSE, docs |-> <<>>]

Init ==
    /\ pc = At("idle")
    /\ reset = FALSE
    /\ runLog = <<>>
    /\ colls = {}
    /\ validated = {}
    /\ indexes = {}
    /\ store = [c \in Collections |-> <<>>]
    /\ nextId = 0
    /\ now = 739921
    /\ ids = NoIds
    /\ libri_con_autori = <<>>
    /\ dataDir = FALSE
    /\ files = [c \in Collections |-> NoFile]
    /\ calls = <<>>
    /\ faults = 0

\* sys.exit(status), or the return of main (status 0).
Exit(rs, status) ==
    /\ pc' = At("idle")
    /\ runLog' = Append(runLog, [reset |-> rs, exit |-> status])

\* A plausible slip: the failure is reported and the setup goes on.
AfterPingNoExit(ok, rs) == IF rs THEN "drop_database" ELSE "create_collections"

\* Where __init__ goes after the ping: sys.exit(1) on ConnectionFailure,
\* else run_complete_setup, which drops the database first when reset.
AfterPing(ok, rs) ==
    IF ~ok THEN "idle" ELSE IF rs THEN "drop_database" ELSE "create_collections"

\* main up to the first stage: parse the arguments, connect, ping.
Main(rs, ok) ==
    /\ pc.at = "idle"
    /\ Len(runLog) < MaxRuns
    /\ reset' = rs
    /\ now' = now + 1
    /\ ids' = NoIds
    /\ libri_con_autori' = <<>>
    /\ calls' = <<Call("ping", "admin", ok, 0)>>
    /\ faults' = faults + (IF ok THEN 0 ELSE 1)
    /\ IF AfterPing(ok, rs) = "idle"
       THEN Exit(rs, 1)
       ELSE pc' = At(AfterPing(ok, rs)) /\ runLog' = runLog
    /\ UNCHANGED <<colls, validated, indexes, store, nextId, dataDir, files>>

\* The whole database goes, or (an exception, caught) the call is reported
\* as failed: either before the store acted, or after it dropped everything.
drop_database(ok, applied) ==
    /\ pc.at = "drop_database"
    /\ ok => applied
    /\ calls' = Append(calls, Call("drop_database", "biblioteca", ok, 0))
    /\ faults' = faults + (IF ok THEN 0 ELSE 1)
    /\ IF applied
       THEN /\ colls' = {}
            /\ validated' = {}
            /\ indexes' = {}
            /\ store' = [c \in Collections |-> <<>>]
       ELSE UNCHANGED <<colls, validated, indexes, store>>
    /\ pc' = At("create_collections")
    /\ UNCHANGED <<reset, runLog, nextId, now, ids, libri_con_autori, dataDir, files>>

\* The four create_collection calls; F holds the ones an injected fault hits.
\* A collection that exists raises CollectionInvalid; both are caught.
create_collections(F) ==
    /\ pc.at = "create_collections"
    /\ Cardinality(F) <= MaxFaults - faults
    /\ LET made == {c \in Collections : c \notin F /\ c \notin colls}
       IN  /\ colls' = colls \cup made
           /\ validated' = validated \cup made
           /\ calls' = calls \o [i \in 1..4 |->
                          Call("create_collection", CollNames[i], CollNames[i] \in made, 0)]
    /\ faults' = faults + Cardinality(F)
    /\ pc' = At("create_indexes")
    /\ UNCHANGED <<reset, runLog, indexes, store, nextId, now, ids, libri_con_autori,
                   dataDir, files>>

\* The create_index calls inside one try: the first exception ends them.
create_indexes(o) ==
    /\ pc.at = "create_indexes"
    /\ LET r == CreateFrom({}, store, 1, o.k)
       IN  /\ indexes' = indexes \cup r.made
           /\ colls' = colls \cup {ix.coll : ix \in r.made}
           /\ calls' = Append(calls, Call("create_index", "", ~(r.error \/ o.fault),
                                          Cardinality(r.made)))
    /\ faults' = faults + (IF o.fault THEN 1 ELSE 0)
    /\ pc' = At("load_autori")
    /\ UNCHANGED <<reset, runLog, validated, store, nextId, now, ids, libri_con_autori,
                   dataDir, files>>

\* Where load_sample_data goes when the insert_many of batch c raised: the
\* except clause returns (after the last batch the function ends anyway).
AfterInsertError(c) == "validate_setup"

\* One try block of load_sample_data: insert_many of batch into c, then the
\* inserted ids are kept (keep) and the next batch follows (next).
InsertBatch(c, data, o, keep, next) ==
    LET newIds == NewIds(nextId, Len(data))
        r == InsertFrom(c, store[c], Stamp(data, newIds), 1, o.k)
        raised == r.error \/ o.fault
    IN  /\ store' = [store EXCEPT ![c] = r.docs]
        /\ colls' = IF Len(r.docs) > Len(store[c]) THEN colls \cup {c} ELSE colls
        /\ nextId' = nextId + Len(data)
        /\ ids' = IF raised \/ ~keep THEN ids ELSE [ids EXCEPT ![c] = newIds]
        /\ calls' = Append(calls, Call("insert_many", c, ~raised, r.attempted))
        /\ faults' = faults + (IF o.fault THEN 1 ELSE 0)
        /\ pc' = At(IF raised THEN AfterInsertError(c) ELSE next)
        /\ UNCHANGED <<reset, runLog, validated, indexes, now, libri_con_autori,
                       dataDir, files>>

load_autori(o) ==
    /\ pc.at = "load_autori"
    /\ InsertBatch("autori", AutoriData, o, TRUE, "load_libri")

load_libri(o) ==
    /\ pc.at = "load_libri"
    /\ InsertBatch("libri", LibriData(ids.autori), o, TRUE, "load_utenti")

load_utenti(o) ==
    /\ pc.at = "load_utenti"
    /\ InsertBatch("utenti", UtentiData, o, TRUE, "load_prestiti")

load_prestiti(o) ==
    /\ pc.at = "load_prestiti"
    /\ InsertBatch("prestiti", PrestitiData(ids.libri, ids.utenti, now), o, FALSE,
                   "validate_setup")

\* The four count_documents calls, outside any try: an exception leaves
\* run_complete_setup and main's handler ends the process with status 1.
validate_counts(o) ==
    /\ pc.at = "validate_setup"
    /\ calls' = calls \o [i \in 1..(IF o.fault THEN o.k + 1 ELSE 4) |->
                   Call("count_documents", CollNames[i], i <= o.k, Len(store[CollNames[i]]))]
    /\ faults' = faults + (IF o.fault THEN 1 ELSE 0)
    /\ IF o.fault
       THEN Exit(reset, 1)
       ELSE pc' = At("validate_query") /\ runLog' = runLog
    /\ UNCHANGED <<reset, colls, validated, indexes, store, nextId, now, ids,
                   libri_con_autori, dataDir, files>>

\* The aggregation, inside a try.
validate_query(ok) ==
    /\ pc.at = "validate_query"
    /\ libri_con_autori' =
          IF ok THEN Aggregate(store["libri"], store["autori"], 1) ELSE libri_con_autori
    /\ calls' = Append(calls, Call("aggregate", "libri", ok,
                                   IF ok THEN Len(libri_con_autori') ELSE 0))
    /\ faults' = faults + (IF ok THEN 0 ELSE 1)
    /\ pc' = At("export_sample_json")
    /\ UNCHANGED <<reset, runLog, colls, validated, indexes, store, nextId, now, ids,
                   dataDir, files>>

\* os.makedirs("data", exist_ok=True), outside any try.
export_makedirs(ok) ==
    /\ pc.at = "export_sample_json"
    /\ calls' = Append(calls, Call("makedirs", "data", ok, 0))
    /\ faults' = faults + (IF ok THEN 0 ELSE 1)
    /\ IF ok
       THEN /\ dataDir' = TRUE
            /\ pc' = [at |-> "export", i |-> 1]
            /\ runLog' = runLog
       ELSE /\ dataDir' = dataDir
            /\ Exit(reset, 1)
    /\ UNCHANGED <<reset, colls, validated, indexes, store, nextId, now, ids,
                   libri_con_autori, files>>

\* One turn of the export loop: find, convert, write the file; an exception
\* (here: of find or open) is caught and leaves the file as it was.
export_collection(ok) ==
    /\ pc.at = "export"
    /\ LET c == CollNames[pc.i]
       IN  /\ files' = IF ok
                       THEN [files EXCEPT ![c] = [exists |-> TRUE,
                                                  docs |-> ExportDocs(store[c])]]
                       ELSE files
           /\ calls' = Append(calls, Call("export", c, ok, IF ok THEN Len(store[c]) ELSE 0))
    /\ faults' = faults + (IF ok THEN 0 ELSE 1)
    /\ pc' = IF pc.i < Len(CollNames) THEN [at |-> "export", i |-> pc.i + 1] ELSE At("finish")
    /\ UNCHANGED <<reset, runLog, colls, validated, indexes, store, nextId, now, ids,
                   libri_con_autori, dataDir>>

\* run_complete_setup and main return: exit status 0.
finish ==
    /\ pc.at = "finish"
    /\ Exit(reset, 0)
    /\ UNCHANGED <<reset, colls, validated, indexes, store, nextId, now, ids,
                   libri_con_autori, dataDir, files, calls, faults>>

Next ==
    \/ \E rs \in BOOLEAN, ok \in OkChoices : Main(rs, ok)
    \/ \E ok \in OkChoices, applied \in BOOLEAN : drop_database(ok, applied)
    \/ \E F \in SUBSET Collections : create_collections(F)
    \/ \E o \in Outcomes(Len(IndexSpecs), Len(IndexSpecs) - 1) : create_indexes(o)
    \/ \E o \in Outcomes(3, 3) : load_autori(o)
    \/ \E o \in Outcomes(3, 3) : load_libri(o)
    \/ \E o \in Outcomes(3, 3) : load_utenti(o)
    \/ \E o \in Outcomes(2, 2) : load_prestiti(o)
    \/ \E o \in Outcomes(4, 3) : validate_counts(o)
    \/ \E ok \in OkChoices : validate_query(ok)
    \/ \E ok \in OkChoices : export_makedirs(ok)
    \/ \E ok \in OkChoices : export_collection(ok)
    \/ finish

Spec == Init /\ [][Next]_vars

(***************************************************************************)
(* export_sample_json over a database that another writer has filled: the  *)
(* process has reached export_sample_json and one collection holds up to   *)
(* MaxPre documents whose fields, at top level and inside an embedded      *)
(* document, are identifiers, dates, strings or null.                      *)
(***************************************************************************)
PreVals == {ObjectId(0), Date(738535), Str("x"), Null}

\* _id is an ObjectId, or a value the writer chose (here a date).
PreDoc(i, v) ==
    (<<"_id">> :> (IF v[3] THEN ObjectId(i) ELSE Date(i)))
        @@ (<<"k">> :> v[1]) @@ (<<"sub", "k">> :> v[2])

PreSeqs == UNION {[1..n -> PreVals \X PreVals \X BOOLEAN] : n \in 0..MaxPre}

InitExport ==
    \E c \in Collections, sq \in PreSeqs :
        /\ pc = At("export_sample_json")
        /\ reset = FALSE
        /\ runLog = <<>>
        /\ colls = IF sq = <<>> THEN {} ELSE {c}
        /\ validated = {}
        /\ indexes = {}
        /\ store = [x \in Collections |->
                       IF x = c THEN [i \in DOMAIN sq |-> PreDoc(i, sq[i])] ELSE <<>>]
        /\ nextId = Len(sq)
        /\ now = 739921
        /\ ids = NoIds
        /\ libri_con_autori = <<>>
        /\ dataDir = FALSE
        /\ files = [x \in Collections |-> NoFile]
        /\ calls = <<>>
        /\ faults = 0

NextExport ==
    \/ \E ok \in OkChoices : export_makedirs(ok)
    \/ \E ok \in OkChoices : export_collection(ok)
    \/ finish

SpecExport == InitExport /\ [][NextExport]_vars

(***************************************************************************)
(* Properties.                                                             *)
(***************************************************************************)
\* k processes have run and none is running.
Done(k) == pc.at = "idle" /\ Len(runLog) = k
\* No finished process had --reset.
NoReset == \A i \in DOMAIN runLog : ~runLog[i].reset
\* No two documents of collection c have the same value of field f.
NoTwoShare(c, f) ==
    \A i, j \in DOMAIN store[c] : i < j => Get(store[c][i], f) # Get(store[c][j], f)
\* The insert_many calls of the running (or last) process on collection c.
InsertCalls(c) == {i \in DOMAIN calls : calls[i].op = "insert_many" /\ calls[i].coll = c}
Attempted(c) == InsertCalls(c) # {}
Failed(c) == \E i \in InsertCalls(c) : ~calls[i].ok
\* Collection c holds a document whose _id is id.
Holds(c, id) == \E j \in DOMAIN store[c] : Get(store[c][j], "_id") = id

\* C1: after two complete runs without --reset from an empty database, with
\* no fault injected, the second run has ended normally after its last
\* export, no two Books share an isbn, and no two Patrons share an email or
\* a codice_fiscale.
C1_TwoRunsNoDuplicates ==
    (Done(2) /\ NoReset /\ faults = 0) =>
        /\ runLog[2].exit = 0
        /\ calls[Len(calls)] = Call("export", "prestiti", TRUE, Len(store["prestiti"]))
        /\ NoTwoShare("libri", "isbn")
        /\ NoTwoShare("utenti", "email")
        /\ NoTwoShare("utenti", "codice_fiscale")

\* The second run met the isbn index: its insert_many of the Books was rejected.
C1_Witness ==
    /\ Done(2) /\ NoReset /\ faults = 0
    /\ Failed("libri")
    /\ Len(store["libri"]) = 3

\* C2 (as claimed): in the second run without --reset over the seeded
\* database every batch of load_sample_data is attempted, and every record
\* of every batch is handed to the store.
C2_EveryRecordAttempted ==
    (Done(2) /\ NoReset /\ faults = 0) =>
        /\ \E i \in InsertCalls("autori") : calls[i].n = Len(AutoriData)
        /\ \E i \in InsertCalls("libri") : calls[i].n = 3
        /\ \E i \in InsertCalls("utenti") : calls[i].n = Len(UtentiData)
        /\ \E i \in InsertCalls("prestiti") : calls[i].n = 2

\* C3: after one complete run from the empty database, with no fault
\* injected, the store holds 3 authors, 3 books, 3 patrons and 2 loans, and
\* these are the counts validate_setup read.
C3_SeedCounts ==
    (Done(1) /\ faults = 0) =>
        /\ Len(store["autori"]) = 3
        /\ Len(store["libri"]) = 3
        /\ Len(store["utenti"]) = 3
        /\ Len(store["prestiti"]) = 2
        /\ \A c \in Collections :
              \E i \in DOMAIN calls : calls[i] = Call("count_documents", c, TRUE, Len(store[c]))

C3_Witness == Done(1) /\ faults = 0 /\ runLog[1].exit = 0 /\ Len(store["prestiti"]) = 2

\* The stage of the pipeline a call belongs to.
StageOf(op) ==
    CASE op = "ping" -> "Connect"
      [] op = "drop_database" -> "Reset"
      [] op = "create_collection" -> "InitSchema"
      [] op = "create_index" -> "BuildIndexes"
      [] op = "insert_many" -> "Seed"
      [] op \in {"count_documents", "aggregate"} -> "Validate"
      [] OTHER -> "Export"

\* The stages of the calls log, each once, in the order they were entered.
RECURSIVE StagesFrom(_, _)
StagesFrom(log, i) ==
    IF i > Len(log)
    THEN <<>>
    ELSE IF i > 1 /\ StageOf(log[i].op) = StageOf(log[i - 1].op)
         THEN StagesFrom(log, i + 1)
         ELSE <<StageOf(log[i].op)>> \o StagesFrom(log, i + 1)

\* C4 (as claimed): a process whose ping succeeded ends with exit status 0,
\* having gone through InitSchema, BuildIndexes, Seed, Validate and Export
\* in this order and having written or tried every export, whatever store
\* or file call failed on the way.
C4_StageFailuresNonFatal ==
    (pc.at = "idle" /\ calls # <<>> /\ calls[1].ok) =>
        /\ runLog[Len(runLog)].exit = 0
        /\ SelectSeq(StagesFrom(calls, 1), LAMBDA st : st \notin {"Connect", "Reset"})
              = <<"InitSchema", "BuildIndexes", "Seed", "Validate", "Export">>
        /\ calls[Len(calls)].op = "export" /\ calls[Len(calls)].coll = "prestiti"

\* C5 (as claimed): when load_sample_data is over, a failed batch has kept
\* the batches that depend on it from being attempted (Books and Loans after
\* Authors; Loans after Books or Patrons), the Patrons were still attempted
\* after a failure of Authors or Books, and the documents of the batches that
\* went through are in the store.
C5_OnlyDependentSkipped ==
    pc.at = "validate_setup" =>
        /\ Failed("autori") => ~Attempted("libri") /\ ~Attempted("prestiti") /\ Attempted("utenti")
        /\ Failed("libri") => ~Attempted("prestiti") /\ Attempted("utenti")
        /\ Failed("utenti") => ~Attempted("prestiti")
        /\ \A c \in DOMAIN ids : \A k \in DOMAIN ids[c] : Holds(c, ObjectId(ids[c][k]))

\* C6: every step that leaves the process with a failed ping is the end of
\* that process: it has exited with status 1, the ping is the only call it
\* made (no second ping, nothing after it), and the store, the catalog and
\* the files are what they were before the process started.
C6_PingFailureStops ==
    [][(calls' # <<>> /\ ~calls'[1].ok) =>
          /\ pc'.at = "idle"
          /\ Len(calls') = 1
          /\ Len(runLog') = Len(runLog) + 1
          /\ runLog'[Len(runLog')].exit = 1
          /\ store' = store /\ colls' = colls /\ validated' = validated
          /\ indexes' = indexes /\ files' = files /\ dataDir' = dataDir]_vars

\* A ping failed in front of a database that an earlier run seeded.
C6_Witness ==
    /\ calls # <<>> /\ ~calls[1].ok
    /\ Len(runLog) >= 2
    /\ Len(store["prestiti"]) = 2

\* The export of collection c succeeded in the running (or last) process.
Written(c) == \E i \in DOMAIN calls : calls[i].op = "export" /\ calls[i].coll = c /\ calls[i].ok

AggregateRan == \E i \in DOMAIN calls : calls[i].op = "aggregate" /\ calls[i].ok
\* Every Book's autore_id is the _id of an Author of the store.
AllBooksResolvable ==
    \A i \in DOMAIN store["libri"] :
        Has(store["libri"][i], "autore_id") /\ Holds("autori", Get(store["libri"][i], "autore_id"))

\* C8: when the aggregation ran over a store in which every Book has a
\* resolvable autore_id, it returned as many rows as there are Books, also
\* when earlier runs have added further Authors.
C8_OneRowPerBook ==
    (AggregateRan /\ AllBooksResolvable) => Len(libri_con_autori) = Len(store["libri"])

\* The aggregation ran over three Books and the Authors of two runs.
C8_Witness ==
    /\ AggregateRan /\ AllBooksResolvable
    /\ Len(store["libri"]) = 3
    /\ Len(store["autori"]) >= 6

\* C9: in every reachable state every Loan's libro_id is the _id of a Book
\* of the store and its utente_id the _id of a Patron of the store.
C9_LoansReferToStoredRecords ==
    \A i \in DOMAIN store["prestiti"] :
        /\ Holds("libri", Get(store["prestiti"][i], "libro_id"))
        /\ Holds("utenti", Get(store["prestiti"][i], "utente_id"))

\* Loans inserted by a run with --reset that followed another run.
C9_Witness ==
    /\ Done(2)
    /\ runLog[2].reset
    /\ Attempted("prestiti")
    /\ Len(store["prestiti"]) = 2

\* C10: after k >= 1 complete runs without --reset from the empty database,
\* with no fault injected, the store holds 3*k Authors, 3 Books, 3 Patrons
\* and 2 Loans; a run after the first inserts its Authors, has its Books
\* rejected at the first record and attempts neither Patrons nor Loans.
C10_AuthorsGrowOthersStay ==
    (pc.at = "idle" /\ Len(runLog) >= 1 /\ NoReset /\ faults = 0) =>
        /\ Len(store["autori"]) = 3 * Len(runLog)
        /\ Len(store["libri"]) = 3
        /\ Len(store["utenti"]) = 3
        /\ Len(store["prestiti"]) = 2
        /\ Len(runLog) >= 2 =>
              /\ \E i \in InsertCalls("autori") : calls[i].ok /\ calls[i].n = 3
              /\ \E i \in InsertCalls("libri") : ~calls[i].ok /\ calls[i].n = 1
              /\ ~Attempted("utenti")
              /\ ~Attempted("prestiti")

C10_Witness == Done(3) /\ NoReset /\ faults = 0 /\ Len(store["autori"]) = 9

====
